---- MODULE Spec2Model ----
(***************************************************************************)
(* Model of the health-checking load balancer of src/Load_Balancer/main.go *)
(* : the startup sequence of main, the background HealthCheck goroutine,   *)
(* and the HTTP handler (GetNextBackend followed by the forward), with the *)
(* per-backend sync.RWMutex that guards each Alive flag.                   *)
(* Time is in milliseconds.                                                *)
(***************************************************************************)
EXTENDS Integers, Sequences, FiniteSets, TLC

\* ---------------------------------------------------------------- bounds
MaxServers == 2
NumHandlers == 1
MaxCalls == 8

\* ------------------------------------------------------ program constants
TimeoutMs == 2000
GoodMs == 500
AverageMs == 1000

Handlers == 1..NumHandlers

\* Round-trip times a probe can take, around every threshold of healthCheck.
Latencies == {200, 500, 700, 1000, 1200, 2000}

\* What the network does to one GET: the connection is refused (or DNS
\* fails), or an answer arrives after ms milliseconds.
ProbeOutcomes ==
  {[refused |-> TRUE, ms |-> 0]} \cup {[refused |-> FALSE, ms |-> t] : t \in Latencies}

NoProbe == [refused |-> FALSE, ms |-> 0 - 1]

\* The conditions a backend can settle in for good: unreachable,
\* overloaded, or answering in time.
StableOutcomes ==
  {[refused |-> TRUE, ms |-> 0], [refused |-> FALSE, ms |-> 1200],
   [refused |-> FALSE, ms |-> 700]}

Unsettled == [b |-> 0, out |-> NoProbe]

\* The round-robin variant after its construction loop: n backends, all
\* with Alive: true, the counter at -1, no call made; up is which of the
\* backends can in fact be reached.  recent is history: the backends the
\* last calls returned, at most n of them.
RRStart(n, up) ==
  [backends |-> [b \in 1..n |-> [URL |-> b, Alive |-> TRUE]], current |-> 0 - 1,
   up |-> up, pc |-> "idle", peer |-> 0, outcome |-> "", calls |-> 0, recent |-> <<>>]

\* The variant is not running.
RROff == RRStart(0, <<>>)

\* The values of --backends: the comma-separated addresses, each one
\* parseable by url.Parse (TRUE) or not (FALSE); <<>> is the empty flag.
RECURSIVE SeqsUpTo(_)
SeqsUpTo(n) ==
  IF n = 0 THEN {<<>>}
  ELSE LET S == SeqsUpTo(n - 1)
       IN S \cup {Append(s, b) : s \in {t \in S : Len(t) = n - 1}, b \in BOOLEAN}

VARIABLES
  servers,     \* strings.Split(serverList, ","): parseability of each address
  mainPc,      \* position of main
  mainI,       \* index of the range loop main is in
  exitCause,   \* why log.Fatal ended the process ("" while it runs)
  backends,    \* ServerPool.backends: records URL, Alive, readers, writer
  hcPc,        \* position of the health goroutine
  hcI,         \* index of the range loop of HealthCheck
  hcAlive,     \* local variable alive of HealthCheck
  handler,     \* per request handler: pc, i, healthyBackends, peer, outcome
  net,         \* the backend whose condition has settled for good, and its probe outcome
  rr,          \* the round-robin variant of the balancer: its pool, counter and handler
  watch,       \* what the history variables follow: "requests", "sweeps", "loop", ...
  hcOut,       \* history: what the network did to the probe that produced hcAlive
  obs,         \* history, per request: the flags during its GetNextBackend call
  hist         \* history of the probes and of the flag writes

mainVars == <<servers, mainPc, mainI, exitCause, watch, net, rr>>
hcVars == <<hcPc, hcI, hcAlive, hcOut>>
vars == <<servers, mainPc, mainI, exitCause, backends, hcPc, hcI, hcAlive, handler, net, rr, watch, hcOut, obs, hist>>

\* ------------------------------------------------------------ healthCheck
\* healthCheck with <= in place of < in the latency comparisons.
healthCheckLe(o) ==
  IF o.refused \/ o.ms >= TimeoutMs THEN "Bad"
  ELSE IF o.ms <= GoodMs THEN "Good"
  ELSE IF o.ms <= AverageMs THEN "Average"
  ELSE "Overloaded"

healthCheck(o) ==
  IF o.refused \/ o.ms >= TimeoutMs THEN "Bad"
  ELSE IF o.ms < GoodMs THEN "Good"
  ELSE IF o.ms < AverageMs THEN "Average"
  ELSE "Overloaded"

\* alive == "Good" || alive == "Average"
IsAlive(class) == class = "Good" \/ class = "Average"

\* ------------------------------------------------------------- ServerPool
\* An AddBackend that puts the new backend in front.
AddBackendFront(pool, backend) == <<backend>> \o pool

AddBackend(pool, backend) == Append(pool, backend)

\* A backend constructed with Alive: true, whatever the probe said.
NewBackendAlive(url, class) ==
  [URL |-> url, Alive |-> TRUE, readers |-> 0, writer |-> "none"]

NewBackend(url, class) ==
  [URL |-> url, Alive |-> IsAlive(class), readers |-> 0, writer |-> "none"]

IdleHandler == [pc |-> "idle", i |-> 0, healthyBackends |-> <<>>, peer |-> 0, outcome |-> ""]

Running == exitCause = ""

Pool == 1..Len(backends)

Flags == [b \in Pool |-> backends[b].Alive]

InCall(h) == handler[h].pc \in {"rlock", "read", "pick"}

\* ------------------------------------------------------ history variables
\* What one request has seen.  From the start of its GetNextBackend call to
\* the return: whether a flag was written (raced), whether every flag was
\* false all the time (allDead), the backends a sweep had turned Dead, and
\* unlocked, before the call began and no sweep has turned Alive since
\* (excluded), the backends the call read as true (readAlive).  At the
\* return: whether the returned backend is one of readAlive (retRead), its
\* flag at that moment (retAlive) and whether any flag is true at that
\* moment (retAny).  And the numbers of GetNextBackend calls and of
\* forwards of the request.  Watching the order of the writes: the backends
\* the call read after the sweep in progress had written them (sawFresh)
\* and before it had (sawStale), and whether a read gave a value other
\* than the last one written to that flag (torn).  Watching staleness: the
\* backend whose condition had settled, and a sweep begun after that had
\* ended, before the call began (settled).
IdleObs ==
  [raced |-> FALSE, allDead |-> FALSE, excluded |-> {}, readAlive |-> {},
   retRead |-> FALSE, retAlive |-> FALSE, retAny |-> FALSE, selects |-> 0, forwards |-> 0,
   sawFresh |-> {}, sawStale |-> {}, torn |-> FALSE, settled |-> {}]

\* The history of the sweeps: the backends a sweep turned from Alive to
\* Dead and none has turned Alive since (demoted); for each backend the
\* class a sweep last wrote the flag from ("" before the first write) and
\* the flag it wrote; the class of the construction probe of each backend,
\* kept until a sweep writes the flag (then ""); the number of probes of
\* each backend in the current sweep; the backends the current sweep has
\* written (fresh) and the value last written to each flag, by main at
\* construction or by a sweep (wrote); since a backend's condition settled,
\* whether a sweep has begun (age 1) and that sweep has ended (age 2).
InitHist ==
  [demoted |-> {}, lastClass |-> <<>>, lastFlag |-> <<>>, created |-> <<>>, probes |-> <<>>,
   fresh |-> {}, wrote |-> <<>>, age |-> 0]

HistCreate(class) ==
  IF watch = "sweeps"
    THEN [hist EXCEPT !.created = Append(@, class),
                      !.lastClass = Append(@, ""),
                      !.lastFlag = Append(@, FALSE),
                      !.probes = Append(@, 0)]
    ELSE IF watch = "loop" THEN [hist EXCEPT !.probes = Append(@, 0)]
    ELSE IF watch = "order"
    THEN [hist EXCEPT !.wrote = Append(@, backends'[Len(backends')].Alive)]
    ELSE hist

HistProbe(b) ==
  IF watch \in {"sweeps", "loop"} THEN [hist EXCEPT !.probes[b] = @ + 1] ELSE hist

HistWrite(b, old, new, class) ==
  IF watch = "sweeps"
    THEN [hist EXCEPT !.lastClass[b] = class, !.lastFlag[b] = new, !.created[b] = ""]
    ELSE IF watch = "requests"
    THEN [hist EXCEPT !.demoted =
            IF new THEN @ \ {b} ELSE IF old THEN @ \cup {b} ELSE @]
    ELSE IF watch = "order"
    THEN [hist EXCEPT !.fresh = @ \cup {b}, !.wrote[b] = new]
    ELSE IF watch = "stale"
    THEN [hist EXCEPT !.age = IF @ = 1 /\ b = Len(backends) THEN 2 ELSE @]
    ELSE hist

HistWake ==
  IF watch \in {"sweeps", "loop"}
    THEN [hist EXCEPT !.probes = [b \in Pool |-> 0]]
    ELSE IF watch = "order" THEN [hist EXCEPT !.fresh = {}]
    ELSE IF watch = "stale"
    THEN [hist EXCEPT !.age = IF net.b # 0 /\ @ = 0 THEN 1 ELSE @]
    ELSE hist

ObsArrive(h) ==
  IF watch = "requests"
    THEN [obs EXCEPT ![h] =
           [IdleObs EXCEPT !.allDead = \A b \in Pool : ~backends[b].Alive,
                           !.excluded = hist.demoted,
                           !.selects = 1]]
    ELSE IF watch = "stale"
    THEN [obs EXCEPT ![h].settled = IF hist.age = 2 THEN {net.b} ELSE {}]
    ELSE obs

Sweeping == hcPc \in {"probe", "lock", "acquire", "write"}

ObsRead(h, b, flag) ==
  IF watch = "requests" /\ flag
    THEN [obs EXCEPT ![h].readAlive = @ \cup {b}]
    ELSE IF watch = "order"
    THEN [obs EXCEPT
           ![h].sawFresh = IF Sweeping /\ b \in hist.fresh THEN @ \cup {b} ELSE @,
           ![h].sawStale = IF Sweeping /\ b \notin hist.fresh THEN @ \cup {b} ELSE @,
           ![h].torn = @ \/ flag # hist.wrote[b]]
    ELSE obs

\* A new sweep begins: what the calls saw of the sweep before is dropped.
ObsWake ==
  IF watch = "order"
    THEN [h \in Handlers |-> [obs[h] EXCEPT !.sawFresh = {}, !.sawStale = {}]]
    ELSE obs

ObsPick(h, p) ==
  IF watch = "requests"
    THEN [obs EXCEPT ![h].retRead = p \in obs[h].readAlive,
                     ![h].retAlive = p # 0 /\ backends[p].Alive,
                     ![h].retAny = \E b \in Pool : backends[b].Alive,
                     ![h].readAlive = {}]
    ELSE IF watch = "order"
    THEN [obs EXCEPT ![h].sawFresh = {}, ![h].sawStale = {}]
    ELSE obs

ObsDispatch(h, n) ==
  IF watch = "requests"
    THEN [obs EXCEPT ![h].forwards = @ + n, ![h].retRead = FALSE, ![h].retAlive = FALSE,
                     ![h].retAny = FALSE]
    ELSE obs

ObsWrite(b, flag) ==
  IF watch = "requests"
    THEN [h \in Handlers |->
           IF InCall(h)
             THEN [obs[h] EXCEPT !.raced = TRUE,
                                 !.allDead = @ /\ ~flag,
                                 !.excluded = IF flag THEN @ \ {b} ELSE @]
             ELSE obs[h]]
    ELSE obs

\* ------------------------------------------------------------------ Init
InitWatching(w) ==
  /\ servers \in SeqsUpTo(MaxServers)
  /\ mainPc = "start"
  /\ mainI = 0
  /\ exitCause = ""
  /\ backends = <<>>
  /\ hcPc = "off"
  /\ hcI = 0
  /\ hcAlive = ""
  /\ hcOut = NoProbe
  /\ handler = [h \in Handlers |-> IdleHandler]
  /\ net = Unsettled
  /\ rr = RROff
  /\ watch = w
  /\ obs = [h \in Handlers |-> IdleObs]
  /\ hist = InitHist

Init == InitWatching("requests")

\* ------------------------------------------------------------------- main
Fatal(cause) ==
  /\ mainPc' = "exit"
  /\ exitCause' = cause

\* if len(serverList) == 0 { log.Fatal(...) }
MainCheckList ==
  /\ Running /\ mainPc = "start"
  /\ IF Len(servers) = 0
       THEN Fatal("empty") /\ mainI' = mainI
       ELSE mainPc' = "construct" /\ mainI' = 1 /\ exitCause' = exitCause
  /\ UNCHANGED <<servers, watch, net, rr, backends, hcVars, handler, obs, hist>>

\* The construction loop adding a backend without probing it: Alive keeps
\* Go's zero value.
MainConstructUnprobed ==
  /\ Running /\ mainPc = "construct"
  /\ IF ~servers[mainI]
       THEN Fatal("parse") /\ UNCHANGED <<mainI, backends, hist>>
       ELSE /\ backends' = AddBackend(backends, NewBackend(mainI, "Bad"))
            /\ hist' = HistCreate("")
            /\ mainI' = mainI + 1
            /\ mainPc' = IF mainI = Len(servers) THEN "spawn" ELSE "construct"
            /\ exitCause' = exitCause
  /\ UNCHANGED <<servers, watch, net, rr, hcVars, handler, obs>>

\* The construction loop skipping an address that does not parse
\* (continue in place of log.Fatal).
MainConstructSkip ==
  /\ Running /\ mainPc = "construct"
  /\ IF ~servers[mainI]
       THEN UNCHANGED <<backends, hist>>
       ELSE \E o \in ProbeOutcomes :
              /\ backends' = AddBackend(backends, NewBackend(mainI, healthCheck(o)))
              /\ hist' = HistCreate(healthCheck(o))
  /\ mainI' = mainI + 1
  /\ mainPc' = IF mainI = Len(servers) THEN "spawn" ELSE "construct"
  /\ UNCHANGED <<servers, watch, net, rr, exitCause, hcVars, handler, obs>>

\* One iteration of the construction loop: url.Parse, healthCheck, AddBackend.
MainConstruct ==
  /\ Running /\ mainPc = "construct"
  /\ IF ~servers[mainI]
       THEN Fatal("parse") /\ UNCHANGED <<mainI, backends, hist>>
       ELSE /\ \E o \in ProbeOutcomes :
                 /\ backends' = AddBackend(backends, NewBackend(mainI, healthCheck(o)))
                 /\ hist' = HistCreate(healthCheck(o))
            /\ mainI' = mainI + 1
            /\ mainPc' = IF mainI = Len(servers) THEN "spawn" ELSE "construct"
            /\ exitCause' = exitCause
  /\ UNCHANGED <<servers, watch, net, rr, hcVars, handler, obs>>

\* go func() { for { serverPool.HealthCheck(); time.Sleep(5 * time.Second) } }()
MainSpawn ==
  /\ Running /\ mainPc = "spawn"
  /\ mainPc' = "publicIP"
  /\ hcPc' = "probe" /\ hcI' = 1
  /\ UNCHANGED <<servers, watch, net, rr, mainI, exitCause, backends, hcAlive, hcOut, handler, obs, hist>>

\* ipOfLB := getPublicIP(): log.Fatal inside on any error.
MainGetPublicIP ==
  /\ Running /\ mainPc = "publicIP"
  /\ \E ok \in BOOLEAN :
       IF ok THEN mainPc' = "coordsLB" /\ exitCause' = exitCause
             ELSE Fatal("geo")
  /\ UNCHANGED <<servers, watch, net, rr, mainI, backends, hcVars, handler, obs, hist>>

\* coordinatesOfLB, err := getCoordinatesFromIP(ipOfLB); log.Fatal on err.
MainCoordinatesLB ==
  /\ Running /\ mainPc = "coordsLB"
  /\ \E ok \in BOOLEAN :
       IF ok THEN mainPc' = "coordsServer" /\ mainI' = 1 /\ exitCause' = exitCause
             ELSE Fatal("geo") /\ mainI' = mainI
  /\ UNCHANGED <<servers, watch, net, rr, backends, hcVars, handler, obs, hist>>

\* One iteration of the distance report: log.Fatalf when the lookup fails.
MainCoordinatesServer ==
  /\ Running /\ mainPc = "coordsServer"
  /\ \E ok \in BOOLEAN :
       IF ok THEN /\ mainI' = mainI + 1
                  /\ mainPc' = IF mainI = Len(servers) THEN "listen" ELSE "coordsServer"
                  /\ exitCause' = exitCause
             ELSE Fatal("geo") /\ mainI' = mainI
  /\ UNCHANGED <<servers, watch, net, rr, backends, hcVars, handler, obs, hist>>

\* server.ListenAndServe(): returns an error when the port cannot be bound.
MainListen ==
  /\ Running /\ mainPc = "listen"
  /\ \E ok \in BOOLEAN :
       IF ok THEN mainPc' = "serving" /\ exitCause' = exitCause
             ELSE Fatal("listen")
  /\ UNCHANGED <<servers, watch, net, rr, mainI, backends, hcVars, handler, obs, hist>>

\* ------------------------------------------------- ServerPool.HealthCheck
\* What the network can do to a probe of backend b.
Net(b) == IF net.b = b THEN {net.out} ELSE ProbeOutcomes

\* alive := healthCheck(backend.URL.String())
HcProbe ==
  /\ Running /\ hcPc = "probe"
  /\ \E o \in Net(hcI) :
       /\ hcOut' = IF watch = "sweeps" THEN o ELSE NoProbe
       /\ hcAlive' = healthCheck(o)
  /\ hist' = HistProbe(hcI)
  /\ hcPc' = "lock"
  /\ UNCHANGED <<mainVars, backends, hcI, handler, obs>>

\* backend.mu.Lock(), first half: the writer announces itself, which
\* keeps new readers out.
HcLock ==
  /\ Running /\ hcPc = "lock"
  /\ backends[hcI].writer = "none"
  /\ backends' = [backends EXCEPT ![hcI].writer = "pending"]
  /\ hcPc' = "acquire"
  /\ UNCHANGED <<mainVars, hcI, hcAlive, hcOut, handler, obs, hist>>

\* A Lock that does not wait for the readers.
HcAcquireNoWait ==
  /\ Running /\ hcPc = "acquire"
  /\ backends' = [backends EXCEPT ![hcI].writer = "held"]
  /\ hcPc' = "write"
  /\ UNCHANGED <<mainVars, hcI, hcAlive, hcOut, handler, obs, hist>>

\* backend.mu.Lock(), second half: wait until the readers have left.
HcAcquire ==
  /\ Running /\ hcPc = "acquire"
  /\ backends[hcI].readers = 0
  /\ backends' = [backends EXCEPT ![hcI].writer = "held"]
  /\ hcPc' = "write"
  /\ UNCHANGED <<mainVars, hcI, hcAlive, hcOut, handler, obs, hist>>

\* A write that flips the flag on a failed probe.
HcFlagFlip(old, class) == IF class = "Bad" THEN ~old ELSE IsAlive(class)

\* A write that never turns a Dead backend Alive again.
HcFlagSticky(old, class) == old /\ IsAlive(class)

\* The value HealthCheck stores in backend.Alive.
HcFlag(old, class) == IsAlive(class)

\* A sweep that returns at the first failed probe.
HcAfterAbort(b, class) ==
  IF b = Len(backends) \/ class = "Bad" THEN "sleep" ELSE "probe"

\* Where the range loop of HealthCheck goes after backend b: the next
\* backend, or (HealthCheck returns) the sleep of the goroutine.
HcAfter(b, class) == IF b = Len(backends) THEN "sleep" ELSE "probe"

\* A write that leaves the lock held (no Unlock) when the loop moves on.
HcWriteNoUnlock ==
  /\ Running /\ hcPc = "write"
  /\ LET old == backends[hcI].Alive
         new == HcFlag(old, hcAlive)
     IN /\ backends' = [backends EXCEPT ![hcI].Alive = new]
        /\ obs' = ObsWrite(hcI, new)
        /\ hist' = HistWrite(hcI, old, new, hcAlive)
  /\ hcPc' = HcAfter(hcI, hcAlive)
  /\ hcI' = IF hcPc' = "sleep" THEN 0 ELSE hcI + 1
  /\ hcAlive' = "" /\ hcOut' = NoProbe
  /\ UNCHANGED <<mainVars, handler>>

\* backend.Alive = alive == "Good" || alive == "Average"; backend.mu.Unlock()
HcWrite ==
  /\ Running /\ hcPc = "write"
  /\ LET old == backends[hcI].Alive
         new == HcFlag(old, hcAlive)
     IN /\ backends' = [backends EXCEPT ![hcI].Alive = new, ![hcI].writer = "none"]
        /\ obs' = ObsWrite(hcI, new)
        /\ hist' = HistWrite(hcI, old, new, hcAlive)
  /\ hcPc' = HcAfter(hcI, hcAlive)
  /\ hcI' = IF hcPc' = "sleep" THEN 0 ELSE hcI + 1
  /\ hcAlive' = "" /\ hcOut' = NoProbe
  /\ UNCHANGED <<mainVars, handler>>

\* time.Sleep(5 * time.Second) returns and the next sweep starts.
HcWake ==
  /\ Running /\ hcPc = "sleep"
  /\ hcPc' = "probe" /\ hcI' = 1
  /\ hist' = HistWake
  /\ obs' = ObsWake
  /\ UNCHANGED <<mainVars, backends, hcAlive, hcOut, handler>>

\* ------------------------------------------------------- the HTTP handler
\* A request arrives: the handler calls serverPool.GetNextBackend().
HArrive(h) ==
  /\ Running /\ mainPc = "serving"
  /\ handler[h].pc = "idle"
  /\ handler' = [handler EXCEPT ![h] =
       [pc |-> "rlock", i |-> 1, healthyBackends |-> <<>>, peer |-> 0, outcome |-> ""]]
  /\ obs' = ObsArrive(h)
  /\ UNCHANGED <<mainVars, backends, hcVars, hist>>

\* An RLock that does not wait for the writer.
HRLockNoWait(h) ==
  /\ Running /\ handler[h].pc = "rlock"
  /\ backends' = [backends EXCEPT ![handler[h].i].readers = @ + 1]
  /\ handler' = [handler EXCEPT ![h].pc = "read"]
  /\ UNCHANGED <<mainVars, hcVars, obs, hist>>

\* backend.mu.RLock(): blocked while a writer holds or waits for the lock.
HRLock(h) ==
  /\ Running /\ handler[h].pc = "rlock"
  /\ backends[handler[h].i].writer = "none"
  /\ backends' = [backends EXCEPT ![handler[h].i].readers = @ + 1]
  /\ handler' = [handler EXCEPT ![h].pc = "read"]
  /\ UNCHANGED <<mainVars, hcVars, obs, hist>>

\* The filter with the condition negated: if !backend.Alive { ... }
CollectNegated(healthy, b, flag) == IF ~flag THEN Append(healthy, b) ELSE healthy

\* No filter at all: every backend is appended.
CollectAll(healthy, b, flag) == Append(healthy, b)

\* if backend.Alive { healthyBackends = append(healthyBackends, backend) }
Collect(healthy, b, flag) == IF flag THEN Append(healthy, b) ELSE healthy

\* What a read of backend.Alive can give: the flag, or, when it races with
\* the write of HealthCheck (a data race in Go), either value.
ReadFlag(b) ==
  IF backends[b].writer = "held" THEN BOOLEAN ELSE {backends[b].Alive}

\* A read that leaves the read lock held (no RUnlock).
HReadKeepLock(h) ==
  /\ Running /\ handler[h].pc = "read"
  /\ LET b == handler[h].i
     IN \E flag \in ReadFlag(b) :
        /\ handler' = [handler EXCEPT
             ![h].healthyBackends = Collect(@, b, flag),
             ![h].i = IF b = Len(backends) THEN 0 ELSE b + 1,
             ![h].pc = IF b = Len(backends) THEN "pick" ELSE "rlock"]
        /\ obs' = ObsRead(h, b, flag)
  /\ UNCHANGED <<mainVars, backends, hcVars, hist>>

\* The read of backend.Alive under the read lock; backend.mu.RUnlock(),
\* and the range loop moves on.
HRead(h) ==
  /\ Running /\ handler[h].pc = "read"
  /\ LET b == handler[h].i
     IN \E flag \in ReadFlag(b) :
        /\ handler' = [handler EXCEPT
             ![h].healthyBackends = Collect(@, b, flag),
             ![h].i = IF b = Len(backends) THEN 0 ELSE b + 1,
             ![h].pc = IF b = Len(backends) THEN "pick" ELSE "rlock"]
        /\ backends' = [backends EXCEPT ![b].readers = @ - 1]
        /\ obs' = ObsRead(h, b, flag)
  /\ UNCHANGED <<mainVars, hcVars, hist>>

\* A selection that always takes the first healthy backend.
PicksFirst(healthy) ==
  IF Len(healthy) = 0 THEN {0} ELSE {healthy[1]}

\* The rest of GetNextBackend: nil for an empty subset, else
\* healthyBackends[rand.Intn(len(healthyBackends))].  nil is 0.
Picks(healthy) ==
  IF Len(healthy) = 0 THEN {0} ELSE {healthy[next] : next \in 1..Len(healthy)}

HPick(h) ==
  /\ Running /\ handler[h].pc = "pick"
  /\ \E p \in Picks(handler[h].healthyBackends) :
       /\ handler' = [handler EXCEPT ![h].peer = p, ![h].pc = "dispatch",
                                     ![h].healthyBackends = <<>>]
       /\ obs' = ObsPick(h, p)
  /\ UNCHANGED <<mainVars, backends, hcVars, hist>>

\* A forward that, when it fails, selects again (a retry).
HForwardRetry(h) ==
  /\ Running /\ handler[h].pc = "dispatch"
  /\ handler[h].peer # 0
  /\ \E ok \in BOOLEAN :
       IF ok
         THEN /\ handler' = [handler EXCEPT ![h].outcome = "upstream", ![h].pc = "done"]
              /\ obs' = ObsDispatch(h, 1)
         ELSE /\ handler' = [handler EXCEPT ![h].pc = "rlock", ![h].i = 1, ![h].peer = 0]
              /\ obs' = [obs EXCEPT ![h].forwards = @ + 1, ![h].selects = @ + 1]
  /\ UNCHANGED <<mainVars, backends, hcVars, hist>>

\* A forward that marks the backend dead when it fails.
HForwardMarkDead(h) ==
  /\ Running /\ handler[h].pc = "dispatch"
  /\ handler[h].peer # 0
  /\ \E ok \in BOOLEAN :
       /\ handler' = [handler EXCEPT
            ![h].outcome = IF ok THEN "upstream" ELSE "gateway",
            ![h].pc = "done"]
       /\ backends' = [backends EXCEPT ![handler[h].peer].Alive = @ /\ ok]
  /\ obs' = ObsDispatch(h, 1)
  /\ UNCHANGED <<mainVars, hcVars, hist>>

\* peer.ReverseProxy.ServeHTTP(w, r): the upstream's response, or the
\* proxy's gateway error when the backend cannot be reached.
HForward(h) ==
  /\ Running /\ handler[h].pc = "dispatch"
  /\ handler[h].peer # 0
  /\ \E ok \in BOOLEAN :
       handler' = [handler EXCEPT
         ![h].outcome = IF ok THEN "upstream" ELSE "gateway",
         ![h].pc = "done"]
  /\ obs' = ObsDispatch(h, 1)
  /\ UNCHANGED <<mainVars, backends, hcVars, hist>>

\* http.Error(w, "Service not available", http.StatusServiceUnavailable)
HUnavailable(h) ==
  /\ Running /\ handler[h].pc = "dispatch"
  /\ handler[h].peer = 0
  /\ handler' = [handler EXCEPT ![h].outcome = "503", ![h].pc = "done"]
  /\ obs' = ObsDispatch(h, 0)
  /\ UNCHANGED <<mainVars, backends, hcVars, hist>>

\* The handler returns; the goroutine is free for the next request.
HReturn(h) ==
  /\ Running /\ handler[h].pc = "done"
  /\ handler' = [handler EXCEPT ![h] = IdleHandler]
  /\ obs' = [obs EXCEPT ![h] = IdleObs]
  /\ UNCHANGED <<mainVars, backends, hcVars, hist>>

Next ==
  \/ MainCheckList
  \/ MainConstruct
  \/ MainSpawn
  \/ MainGetPublicIP
  \/ MainCoordinatesLB
  \/ MainCoordinatesServer
  \/ MainListen
  \/ HcProbe
  \/ HcLock
  \/ HcAcquire
  \/ HcWrite
  \/ HcWake
  \/ \E h \in Handlers : HArrive(h)
  \/ \E h \in Handlers : HRLock(h)
  \/ \E h \in Handlers : HRead(h)
  \/ \E h \in Handlers : HPick(h)
  \/ \E h \in Handlers : HForward(h)
  \/ \E h \in Handlers : HUnavailable(h)
  \/ \E h \in Handlers : HReturn(h)

\* The environment: the condition of backend b changes to o and stays so.
EnvSettle(b, o) ==
  /\ Running /\ hcPc # "off"
  /\ net.b = 0
  /\ net' = [b |-> b, out |-> o]
  /\ UNCHANGED <<servers, mainPc, mainI, exitCause, watch, rr, backends, hcVars, handler, obs, hist>>

NextEnv ==
  \/ Next
  \/ \E b \in Pool : \E o \in StableOutcomes : EnvSettle(b, o)

\* --------------------------------------------------- round-robin variant
\* NextIndex with the counter read before it is incremented.
RRNextIndexPost(current, n) ==
  [current |-> current + 1, index |-> current % n]

\* s.current++; return s.current % int64(len(s.backends))
RRNextIndex(current, n) ==
  [current |-> current + 1, index |-> (current + 1) % n]

\* The handler calls GetNextBackend: s.backends[s.NextIndex()].
RRGetNextBackend ==
  /\ rr.pc = "idle" /\ rr.calls < MaxCalls
  /\ LET n == Len(rr.backends)
         next == RRNextIndex(rr.current, n)
         peer == rr.backends[next.index + 1].URL
     IN rr' = [rr EXCEPT !.current = next.current, !.peer = peer, !.pc = "dispatch",
                         !.outcome = "", !.calls = @ + 1,
                         !.recent = IF Len(@) < n THEN Append(@, peer)
                                    ELSE Append(Tail(@), peer)]
  /\ UNCHANGED <<servers, mainPc, mainI, exitCause, watch, net, backends, hcVars, handler, obs, hist>>

\* if peer != nil { peer.ReverseProxy.ServeHTTP(w, r); return }
\* http.Error(w, "Service not available", http.StatusServiceUnavailable)
RRDispatch ==
  /\ rr.pc = "dispatch"
  /\ rr' = [rr EXCEPT !.outcome = IF rr.peer = 0 THEN "503"
                                  ELSE IF rr.up[rr.peer] THEN "upstream" ELSE "gateway",
                      !.pc = "idle"]
  /\ UNCHANGED <<servers, mainPc, mainI, exitCause, watch, net, backends, hcVars, handler, obs, hist>>

\* The environment: backend b goes down or comes back.
RRFlip(b) ==
  /\ rr' = [rr EXCEPT !.up[b] = ~@]
  /\ UNCHANGED <<servers, mainPc, mainI, exitCause, watch, net, backends, hcVars, handler, obs, hist>>

RRInit ==
  /\ servers = <<>>
  /\ mainPc = "start"
  /\ mainI = 0
  /\ exitCause = ""
  /\ backends = <<>>
  /\ hcPc = "off"
  /\ hcI = 0
  /\ hcAlive = ""
  /\ hcOut = NoProbe
  /\ handler = [h \in Handlers |-> IdleHandler]
  /\ net = Unsettled
  /\ watch = "roundrobin"
  /\ obs = [h \in Handlers |-> IdleObs]
  /\ hist = InitHist
  /\ \E n \in 1..MaxServers : \E up \in [1..n -> BOOLEAN] : rr = RRStart(n, up)

RRNext ==
  \/ RRGetNextBackend
  \/ RRDispatch
  \/ \E b \in 1..Len(rr.backends) : RRFlip(b)

\* The round-robin variant, its calls made one after another.
RRSpec == RRInit /\ [][RRNext]_vars

\* The balancer with the history following the requests.
Spec == Init /\ [][Next]_vars

\* The balancer with the history following the sweeps.
SweepSpec == InitWatching("sweeps") /\ [][Next]_vars

\* The balancer with the history following the order of the writes.
OrderSpec == InitWatching("order") /\ [][Next]_vars

\* The Go scheduler runs every runnable goroutine: main, the health
\* goroutine and a handler inside GetNextBackend keep taking their steps.
\* Requests need not arrive and a forward has no timeout. A handler that
\* calls RLock while the writer has the lock is queued by the RWMutex and
\* is handed the read lock by the writer's Unlock, before any later Lock
\* can succeed: a handler whose RLock is possible again and again gets it.
Fairness ==
  /\ WF_vars(MainCheckList \/ MainConstruct \/ MainSpawn \/ MainGetPublicIP
             \/ MainCoordinatesLB \/ MainCoordinatesServer \/ MainListen)
  /\ WF_vars(HcProbe \/ HcLock \/ HcAcquire \/ HcWrite \/ HcWake)
  /\ \A h \in Handlers : SF_vars(HRLock(h)) /\ WF_vars(HRead(h) \/ HPick(h))

\* The part of it the health goroutine needs: its own steps, and those of
\* a handler that holds a read lock.
LoopFairness ==
  /\ WF_vars(HcProbe \/ HcLock \/ HcAcquire \/ HcWrite \/ HcWake)
  /\ \A h \in Handlers : WF_vars(HRead(h))

\* The balancer under that scheduling, with a backend whose condition
\* settles, the history following the sweeps since.
StaleSpec == InitWatching("stale") /\ [][NextEnv]_vars /\ LoopFairness

\* The balancer under that scheduling, the history counting the probes.
FairSpec == InitWatching("loop") /\ [][Next]_vars /\ Fairness

\* =================================================================== C1
\* C1 as stated: whenever a backend is Alive and GetNextBackend returns a
\* backend, the Alive flag of the returned backend is true at the moment
\* of the return.
C1_AliveAtReturn ==
  \A h \in Handlers :
    (handler[h].pc = "dispatch" /\ handler[h].peer # 0 /\ obs[h].retAny)
      => obs[h].retAlive

\* C1 amended: a backend GetNextBackend returns is one whose flag the call
\* read as true under the read lock, and the flag is still true at the
\* return unless a sweep wrote a flag during the call.
C1_ReturnedWasReadAlive ==
  \A h \in Handlers :
    (handler[h].pc = "dispatch" /\ handler[h].peer # 0)
      => /\ obs[h].retRead
         /\ (~obs[h].raced => obs[h].retAlive)

C1_Witness ==
  \E h \in Handlers :
    /\ handler[h].pc = "dispatch" /\ handler[h].peer # 0
    /\ obs[h].retRead /\ ~obs[h].raced /\ obs[h].retAlive
    /\ \E b \in Pool : ~backends[b].Alive

\* =================================================================== C2
\* C2: when every flag is false during the whole GetNextBackend call, the
\* call returns nil and the request is answered 503 with no forward.
C2_AllDeadGives503 ==
  \A h \in Handlers :
    obs[h].allDead =>
      /\ handler[h].pc \in {"dispatch", "done"} => handler[h].peer = 0
      /\ handler[h].pc = "done" => handler[h].outcome = "503" /\ obs[h].forwards = 0

C2_Witness ==
  \E h \in Handlers :
    /\ handler[h].pc = "done" /\ obs[h].allDead
    /\ handler[h].outcome = "503" /\ Len(backends) = MaxServers

\* =================================================================== C3
\* C3: a backend that a sweep turned from Alive to Dead before a
\* GetNextBackend call began is not returned by that call unless a sweep
\* turns it Alive again; and no handler is reading a backend's flag while
\* HealthCheck holds that backend's lock for the write.
C3_DeadExcludedNoOverlap ==
  /\ \A h \in Handlers :
       (handler[h].pc \in {"dispatch", "done"} /\ handler[h].peer # 0)
         => handler[h].peer \notin obs[h].excluded
  /\ \A h \in Handlers :
       ~(handler[h].pc = "read" /\ hcPc = "write" /\ handler[h].i = hcI)
  /\ \A b \in Pool : ~(backends[b].writer = "held" /\ backends[b].readers > 0)

C3_Witness ==
  \E h \in Handlers :
    /\ handler[h].pc = "dispatch" /\ handler[h].peer # 0
    /\ obs[h].excluded # {}
    /\ hcPc = "acquire"

\* =================================================================== C4
\* The policy of the claim, from its thresholds: the class of a probe
\* outcome and the liveness of a class.
C4_Class(o) ==
  CASE o.refused -> "Bad"
    [] ~o.refused /\ o.ms >= 2000 -> "Bad"
    [] ~o.refused /\ o.ms < 500 -> "Good"
    [] ~o.refused /\ 500 =< o.ms /\ o.ms < 1000 -> "Average"
    [] ~o.refused /\ 1000 =< o.ms /\ o.ms < 2000 -> "Overloaded"

\* C4: the class HealthCheck gets for a probe is the one of the policy
\* (error or timeout Bad, under 0.5 s Good, under 1 s Average, else
\* Overloaded) and the flag it writes is true exactly for Good and Average.
C4_SweepFollowsPolicy ==
  /\ [](hcPc \in {"lock", "acquire", "write"} => hcAlive = C4_Class(hcOut))
  /\ [][(hcPc = "write" /\ hcPc' # "write")
          => backends'[hcI].Alive = (C4_Class(hcOut) \in {"Good", "Average"})]_vars

C4_Witness ==
  /\ Len(backends) = 2
  /\ hist.lastClass[1] = "Average" /\ backends[1].Alive
  /\ hcPc = "write" /\ hcI = 2 /\ hcOut.ms = 1200 /\ hcAlive = "Overloaded"

\* =================================================================== C5
\* C5: a sweep that probes a backend with the class the sweep before got
\* writes the flag the sweep before wrote, and at the end of a sweep every
\* flag is the one that sweep wrote: equal classes in two consecutive
\* sweeps give equal flag vectors.
C5_SweepIdempotent ==
  /\ [][(hcPc = "write" /\ hcPc' # "write" /\ hist.lastClass[hcI] = hcAlive)
          => backends'[hcI].Alive = hist.lastFlag[hcI]]_vars
  /\ [](hcPc = "sleep" =>
          \A b \in Pool : hist.lastClass[b] # "" /\ backends[b].Alive = hist.lastFlag[b])

C5_Witness ==
  /\ hcPc = "sleep" /\ Len(backends) = 2
  /\ hist.lastClass[1] = "Bad" /\ ~backends[1].Alive
  /\ hist.lastClass[2] = "Good" /\ backends[2].Alive

\* =================================================================== C6
\* C6 as stated: until the first sweep writes it, the flag of every
\* backend is true.
C6_AliveAtCreation ==
  \A b \in Pool : hist.created[b] # "" => backends[b].Alive

\* C6 amended: until the first sweep writes it, the flag of a backend is
\* the liveness of the class of the probe main made at construction.
C6_FlagOfConstructionProbe ==
  \A b \in Pool :
    hist.created[b] # "" => (backends[b].Alive <=> hist.created[b] \in {"Good", "Average"})

C6_Witness ==
  \E b \in Pool :
    /\ hist.created[b] = "Bad" /\ ~backends[b].Alive
    /\ hcPc = "write" /\ hcI # b

\* =================================================================== C7
\* C7: the process ends only on a startup configuration error: an empty
\* backend list, an address that does not parse, or a listener that
\* cannot bind.
C7_OnlyConfigErrorsFatal == exitCause \in {"", "empty", "parse", "listen"}

\* =================================================================== C8
\* C8: when --backends is empty or an address does not parse the process
\* exits with the health loop not started and no request served, and the
\* health loop or the listener runs only over a pool built from the whole,
\* parseable list.
C8_NoPartialStartup ==
  /\ exitCause \in {"empty", "parse"} =>
       /\ hcPc = "off"
       /\ \A h \in Handlers : handler[h] = IdleHandler
  /\ (hcPc # "off" \/ mainPc = "serving" \/ \E h \in Handlers : handler[h].pc # "idle") =>
       /\ Len(servers) > 0
       /\ \A i \in 1..Len(servers) : servers[i]
       /\ Len(backends) = Len(servers)

C8_Witness ==
  /\ exitCause = "parse" /\ Len(backends) = 1 /\ hcPc = "off"

\* =================================================================== C9
\* C9 as stated: the monitor alternates forever: after every idle period
\* a sweep starts again.
C9_SweepsForever == (hcPc = "sleep") ~> (hcPc = "probe")

\* C9 amended: as long as the process has not exited, every sweep probes
\* every backend exactly once and ends, a write of a sweep changes no
\* other backend's flag, every idle period is followed by a sweep, and
\* every backend is probed again and again.
C9_SweepsWhileRunning ==
  /\ [](hcPc = "sleep" => \A b \in Pool : hist.probes[b] = 1)
  /\ [](hcPc # "off" => \A b \in Pool : hist.probes[b] =< 1)
  /\ [][(hcPc = "write" /\ hcPc' # "write")
          => \A b \in Pool : b # hcI => backends'[b].Alive = backends[b].Alive]_vars
  /\ (hcPc = "sleep") ~> (hcPc = "probe" \/ ~Running)
  /\ (hcPc = "probe") ~> (hcPc = "sleep" \/ ~Running)
  /\ \A b \in 1..MaxServers :
       (hcPc # "off" /\ b =< Len(backends)) ~> ((hcPc = "lock" /\ hcI = b) \/ ~Running)

C9_Witness ==
  /\ hcPc = "sleep" /\ Running /\ mainPc = "serving" /\ Len(backends) = 2
  /\ ~backends[1].Alive /\ backends[2].Alive
  /\ \A b \in Pool : hist.probes[b] = 1

\* =================================================================== C10
\* C10: once the health goroutine is started, a step changes an Alive flag
\* only when it is the write of HealthCheck, and no step of a handler
\* (GetNextBackend, a forward, a failed forward) changes any flag.
C10_OnlySweepWrites ==
  [][hcPc # "off" =>
       /\ Flags' # Flags => (hcPc = "write" /\ hcPc' # "write")
       /\ \A h \in Handlers : handler'[h] # handler[h] => Flags' = Flags]_vars

C10_Witness ==
  \E h \in Handlers :
    /\ handler[h].pc = "done" /\ handler[h].outcome = "gateway"
    /\ backends[handler[h].peer].Alive

\* =================================================================== C11
\* C11: while a probe is in flight (and while the goroutine sleeps) no
\* backend's lock is held or asked for by HealthCheck; from the Lock to the
\* Unlock only the lock of the backend just probed is, so a handler's
\* RLock is never refused while HealthCheck probes.
C11_NoLockDuringProbe ==
  /\ hcPc \in {"off", "probe", "sleep"} => \A b \in Pool : backends[b].writer = "none"
  /\ hcPc \in {"lock", "acquire", "write"} =>
       \A b \in Pool : b # hcI => backends[b].writer = "none"
  /\ hcPc = "lock" => backends[hcI].writer = "none"
  /\ \A h \in Handlers :
       (hcPc = "probe" /\ Running /\ handler[h].pc = "rlock") => ENABLED HRLock(h)

C11_Witness ==
  \E h \in Handlers :
    /\ hcPc = "probe" /\ hcI = 2
    /\ handler[h].pc = "read" /\ handler[h].i = 1
    /\ hist.demoted = {1}

\* =================================================================== C12
\* C12: a sweep writes the flags in registry order (what it has written is
\* always a prefix of the registry), every flag holds, and every read of
\* GetNextBackend gives, the value last written to it by main or a sweep;
\* the witness is a call that read backend 1 after the sweep in progress
\* wrote it and backend 2 before that sweep wrote it.
C12_OrderedWritesWholeReads ==
  /\ \A b \in hist.fresh : \A c \in 1..b : c \in hist.fresh
  /\ hcPc \in {"lock", "acquire", "write"} => hist.fresh = 1..(hcI - 1)
  /\ hcPc = "sleep" => hist.fresh = Pool
  /\ \A b \in Pool : backends[b].Alive = hist.wrote[b]
  /\ \A h \in Handlers : ~obs[h].torn

C12_Witness ==
  \E h \in Handlers :
    /\ handler[h].pc = "pick"
    /\ 1 \in obs[h].sawFresh /\ 2 \in obs[h].sawStale
    /\ hcPc = "lock" /\ hcI = 2
    /\ handler[h].healthyBackends = <<2>>

\* =================================================================== C13
\* C13: once the health goroutine or the listener runs, the registry holds
\* one backend per --backends address, in argument order, and is not
\* empty; the registry grows only by the construction loop of main, before
\* the goroutine is started, and no later step changes its length or a
\* backend's address.
C13_RegistryFixed ==
  /\ [](  (hcPc # "off" \/ mainPc = "serving")
          => /\ Len(backends) >= 1
             /\ Len(backends) = Len(servers)
             /\ \A b \in Pool : backends[b].URL = b)
  /\ [][/\ Len(backends') # Len(backends)
           => (mainPc = "construct" /\ hcPc = "off" /\ hcPc' = "off"
               /\ Len(backends') = Len(backends) + 1
               /\ \A b \in Pool : backends'[b] = backends[b])
        /\ hcPc # "off"
           => [b \in Pool |-> backends[b].URL]
                = [b \in 1..Len(backends') |-> backends'[b].URL]]_vars

C13_Witness ==
  \E h \in Handlers :
    /\ mainPc = "serving" /\ Len(backends) = 2
    /\ backends[1].URL = 1 /\ backends[2].URL = 2
    /\ handler[h].pc = "done" /\ handler[h].peer = 2 /\ hcPc = "write"

\* =================================================================== C14
\* C14: a request makes one GetNextBackend call and at most one forward,
\* and ends with one outcome: 503 exactly when the call returned nil (and
\* then no forward), else the upstream's response or a gateway error after
\* one forward; after the outcome the handler only returns, it neither
\* selects nor forwards again.
C14_OneSelectOneForward ==
  /\ [](\A h \in Handlers :
          /\ handler[h].pc # "idle" => obs[h].selects = 1 /\ obs[h].forwards =< 1
          /\ handler[h].pc # "done" => handler[h].outcome = "" /\ obs[h].forwards = 0
          /\ handler[h].pc = "done" =>
               /\ handler[h].outcome \in {"upstream", "gateway", "503"}
               /\ (handler[h].outcome = "503") <=> (handler[h].peer = 0)
               /\ obs[h].forwards = IF handler[h].peer = 0 THEN 0 ELSE 1)
  /\ [][\A h \in Handlers :
          /\ handler[h].pc = "done" =>
               (handler'[h] = handler[h] \/ handler'[h].pc = "idle")
          /\ handler[h].pc = "dispatch" =>
               (handler'[h] = handler[h]
                  \/ (handler'[h].pc = "done" /\ handler'[h].peer = handler[h].peer))]_vars

C14_Witness ==
  \E h \in Handlers :
    /\ handler[h].pc = "done" /\ handler[h].outcome = "gateway"
    /\ obs[h].selects = 1 /\ obs[h].forwards = 1
    /\ \E b \in Pool : b # handler[h].peer /\ backends[b].Alive

\* =================================================================== C15
\* C15: when no flag was written during the call, the values
\* GetNextBackend can return are exactly the backends whose flag is true
\* (each of them, no other one and not nil) when there is one, and only
\* nil when there is none; the value it does return is one of them.
C15_ResultsAreAliveSubset ==
  \A h \in Handlers :
    LET alive == {b \in Pool : backends[b].Alive}
    IN /\ (handler[h].pc = "pick" /\ ~obs[h].raced) =>
            Picks(handler[h].healthyBackends) = IF alive = {} THEN {0} ELSE alive
       /\ (handler[h].pc = "dispatch" /\ ~obs[h].raced) =>
            /\ obs[h].retAny => (handler[h].peer # 0 /\ obs[h].retAlive)
            /\ ~obs[h].retAny => handler[h].peer = 0

C15_Witness ==
  \E h \in Handlers :
    /\ handler[h].pc = "pick" /\ ~obs[h].raced
    /\ Len(handler[h].healthyBackends) = 2
    /\ Picks(handler[h].healthyBackends) = {1, 2}

\* =================================================================== C16
\* C16: when the condition of a backend has settled, then once a sweep
\* begun after that has ended the backend's flag is the policy value of
\* that condition (true exactly for an answer in under 1 s) and stays so;
\* a call begun after that can return the backend exactly when that value
\* is true; and unless the process exits that sweep does end.
C16_StalenessBounded ==
  LET policy == ~net.out.refused /\ net.out.ms < 1000
  IN /\ [](hist.age = 2 => (backends[net.b].Alive <=> policy))
     /\ [](\A h \in Handlers : \A b \in obs[h].settled :
             /\ handler[h].pc = "pick" =>
                  (b \in Picks(handler[h].healthyBackends) <=> policy)
             /\ (handler[h].pc \in {"dispatch", "done"} /\ ~policy) => handler[h].peer # b)
     /\ (net.b # 0) ~> (hist.age = 2 \/ ~Running)

C16_Witness ==
  \E h \in Handlers :
    /\ hist.age = 2 /\ net.b = 1 /\ net.out.refused
    /\ obs[h].settled = {1} /\ handler[h].pc = "dispatch" /\ handler[h].peer = 2
    /\ hcPc = "write" /\ hcI = 1

\* =================================================================== C17
\* C17: in the round-robin variant the k-th GetNextBackend call returns
\* backends[(k-1) mod n], never nil, whether or not that backend can be
\* reached (its Alive flag is never read), and n calls in a row return
\* every backend once.
C17_RoundRobin ==
  LET n == Len(rr.backends)
  IN /\ rr.calls >= 1 =>
          /\ rr.peer # 0
          /\ rr.peer = rr.backends[((rr.calls - 1) % n) + 1].URL
     /\ rr.pc = "idle" => rr.outcome # "503"
     /\ Len(rr.recent) = n => {rr.recent[i] : i \in 1..n} = 1..n

C17_Witness ==
  /\ Len(rr.backends) = 2 /\ rr.calls = 4 /\ rr.pc = "idle"
  /\ rr.peer = 2 /\ ~rr.up[2] /\ rr.outcome = "gateway"
  /\ rr.recent = <<1, 2>>

C19_FlagsFromProbes ==
  (mainPc \in {"listen", "serving"} \/ \E h \in Handlers : handler[h].pc # "idle") =>
    /\ Len(backends) = Len(servers)
    /\ \A b \in Pool :
         LET class == IF hist.created[b] # "" THEN hist.created[b] ELSE hist.lastClass[b]
         IN /\ class \in {"Good", "Average", "Overloaded", "Bad"}
            /\ backends[b].Alive <=> class \in {"Good", "Average"}

C19_Witness ==
  \E h \in Handlers :
    /\ handler[h].pc = "read" /\ handler[h].i = 2 /\ Len(backends) = 2
    /\ hist.created[1] = "" /\ hist.lastClass[1] = "Overloaded" /\ ~backends[1].Alive
    /\ hist.created[2] = "Average" /\ backends[2].Alive

====
